---- MODULE Spec2Model ----
(***************************************************************************)
(* FirefoxSyncXHRPolyfix.js as a state machine.                            *)
(*                                                                         *)
(* The page is single threaded.  Its control state is a call stack of      *)
(* frames plus the microtask queue (Promise.resolve().then(...)).  The     *)
(* underlying send of a synchronous request spins a nested event loop      *)
(* (https://bugzil.la/697151): while its frame is on top of the stack the  *)
(* host may dispatch signals to wrapped handlers and run microtasks.       *)
(***************************************************************************)
EXTENDS Integers, Sequences, FiniteSets, TLC

\* ---------------------------------------------------------------- bounds
\* wrappers addEventListener may create in one session
MaxWrappers == 3
\* synchronous sends, signals and messages of one session, together
MaxOps == 4
\* characters the host receives at a time
Chunk == 1

\* ------------------------------------------------------------- constants
\* JS undefined, as the value of a missing or cleared spoof (line 277).
Undefined == -1
\* XMLHttpRequest.LOADING, the first stage with body data (line 251).
LOADING == 3

XHRs == {"A", "B"}
\* a plain callable, and an object exposing handleEvent (lines 272, 286)
Handlers == {"fn", "obj"}
\* what page code assigns to an on* property: a callable or null
SlotValues == {"fn", "null"}
\* no assignment yet: the closure variable is undefined, the host slot empty
NoHandler == "undefined"
\* what page code passes to removeEventListener: a handler or none
ListenerArgs == Handlers \cup {"null"}
\* a callback the host registers: the id-th wrapper made, around wraps
WrapperOf(handler, id) == [wraps |-> handler, id |-> id]
\* a handler passed to the host as it is, in no wrapper
Raw(handler) == [wraps |-> handler, id |-> 0]
\* registeredListeners.get of a handler that is not in the map
NoWrapper == [wraps |-> NoHandler, id |-> 0]
SigTypes == {"progress", "load"}
\* the text-shaped default, and a type that is not text-shaped (line 250)
ResponseTypes == {"", "json"}
\* third argument of open(): missing, or an explicit value (line 135)
OpenArgs == {"absent", "undefined", "true", "false"}
Errors == {"NetworkError"}
NoExc == "none"
NoX == "-"

\* JS values a caller passes as the body of send
JsUndefined == [t |-> "undefined", items |-> <<>>]
JsNull == [t |-> "null", items |-> <<>>]
JsText == [t |-> "string", items |-> <<>>]
\* the arguments object of a call made with the argument list args
ArgumentsObject(args) == [t |-> "arguments", items |-> args]
\* the argument lists of send(), send(null) and send(text)
SendArgs == {<<>>, <<JsNull>>, <<JsText>>}
\* the body an argument list passes: its first argument, or undefined
BodyOf(args) == IF args = <<>> THEN JsUndefined ELSE args[1]

\* the response body the host is receiving, as numbered characters
Body == [i \in 1..(2 * Chunk) |-> i]

VARIABLES
  openSyncXHRs,                 \* WeakMap of requests opened synchronous
  hostMode,                     \* host: how each request was last opened
  readyState,                   \* host: live readyState of each request
  responseText,                 \* host: live responseText of each request
  responseType,                 \* host: responseType of each request
  XHRStateSpoofs,               \* WeakMap request -> spoofed state
  unblockingEvents,
  currentlyBlockingOnSyncXHRs,
  mustUnblockEventsNow,
  currentlyBlockedEvents,
  stack,                        \* call stack, innermost frame last
  microtasks,                   \* pending Promise reactions, in order
  exc,                          \* exception being propagated, or NoExc
  nOps,                         \* history: sends, signals and messages so far
  nMsgs,                        \* history: messages sent so far
  nPushed,                      \* history: items pushed onto the queue
  replayed,                     \* history: queue items run by a drain
  delivered,                    \* history: oldPM.apply calls per message
  errItems,                     \* history: items queued when a send threw
  raised,                       \* history: a replayed handler has raised
  seen,                         \* history: response length each replay began with
  oldSendCall,                  \* host: the latest call of the underlying send
  openArg,                      \* host: third argument the underlying open last got
  currentHandler,               \* per on* property: the closure variable of line 336
  onSlot,                       \* host: per request and type, the handler whose
                                \* wrapper nativeSet stored in the on* slot
  reported,                     \* host: errors raised to it by wrappers it called
  registeredListeners,          \* WeakMap handler -> its wrapper
  hostListeners,                \* host: per request and type, the callbacks registered
  nWrappers,                    \* wrappers wrapHandler made for addEventListener
  oldRELCall,                   \* host: the latest call of the underlying removal
  timesAdded                    \* history: registrations of a handler since its
                                \* last removal, counted up to two

hostVars == <<hostMode, readyState, responseText, responseType>>
coordVars == <<unblockingEvents, currentlyBlockingOnSyncXHRs,
               mustUnblockEventsNow, currentlyBlockedEvents>>
histVars == <<nOps, nMsgs, nPushed, replayed, delivered, errItems, raised, seen>>
\* what the host keeps of the calls made through the patched members
callVars == <<oldSendCall, openArg>>
slotVars == <<currentHandler, onSlot>>
listenerVars == <<registeredListeners, hostListeners, nWrappers, oldRELCall, timesAdded>>
regVars == <<slotVars, listenerVars>>
apiVars == <<callVars, regVars, reported>>
vars == <<openSyncXHRs, hostVars, XHRStateSpoofs, coordVars, stack,
          microtasks, exc, histVars, apiVars>>

\* ------------------------------------------------------------- helpers
Min(a, b) == IF a < b THEN a ELSE b

Last(s) == s[Len(s)]

\* a stack frame: k is "task" (page script), "handler" (a user handler, via
\* "host" when the wrapper called it at once and via "replay" when a drain
\* did, item being the queue entry replayed), "send" (the patched send of a
\* synchronous request, via "pre" before and "inflight" during the underlying
\* send, h being the argument list of the call) or "drain" (the loop of
\* unblockEventsIfNecessary, via "forced" when the patched send called it and
\* via "turn" when the scheduled turn did)
Frame(k, x, h, via, item) == [k |-> k, x |-> x, h |-> h, via |-> via, item |-> item]

Top == stack[Len(stack)]

Pop == SubSeq(stack, 1, Len(stack) - 1)

\* a synchronous underlying send is between its call and its return
SendInFlight(f) == f.k = "send" /\ f.via = "inflight"

InFlight == \E i \in 1..Len(stack) : SendInFlight(stack[i]) /\ hostMode[stack[i].x] = "sync"

InUserCode == exc = NoExc /\ stack # <<>> /\ Top.k \in {"task", "handler"}

\* the nested event loop of a synchronous underlying send
InNestedLoop == exc = NoExc /\ stack # <<>> /\ SendInFlight(Top) /\ hostMode[Top.x] = "sync"

Quiescent == stack = <<>> /\ microtasks = <<>>

\* String.prototype.substr(start, length)
Substr(text, start, length) ==
  IF length <= 0 THEN <<>> ELSE SubSeq(text, start + 1, Min(start + length, Len(text)))

\* JS truthiness of a number-or-undefined value
Truthy(v) == v # Undefined /\ v # 0

NoSpoofs == [has |-> FALSE, readyState |-> Undefined, responseTextLength |-> Undefined]

\* spoofXHRState(xhr, values): merge the properties of values into the entry
spoofXHRState(map, xhr, values) ==
  [map EXCEPT ![xhr] =
     [has |-> TRUE,
      readyState |-> IF "readyState" \in DOMAIN values
                     THEN values.readyState ELSE map[xhr].readyState,
      responseTextLength |-> IF "responseTextLength" \in DOMAIN values
                             THEN values.responseTextLength
                             ELSE map[xhr].responseTextLength]]

\* the patched readyState getter: override || oldXHRRS.call(this)
ReadyStateGet(map, xhr) ==
  LET override == IF map[xhr].has THEN map[xhr].readyState ELSE Undefined
  IN  IF Truthy(override) THEN override ELSE readyState[xhr]

\* mutant of ResponseTextGet: the captured length is never consulted
ResponseTextGetLive(map, xhr) == responseText[xhr]

\* the patched responseText getter
ResponseTextGet(map, xhr) ==
  LET text == responseText[xhr]
      length == map[xhr].responseTextLength
  IN  IF map[xhr].has /\ length # Undefined
      THEN IF length = Len(text) THEN text ELSE Substr(text, 0, length)
      ELSE text

\* the state wrapHandler captures on entry (lines 246-258)
CaptureSpoofs(xhr, evt) ==
  LET rs == ReadyStateGet(XHRStateSpoofs, xhr)
      rt == responseType[xhr]
  IN  IF rt = "" \/ rt = "text"
      THEN [readyState |-> rs,
            responseTextLength |->
              IF rs < LOADING THEN 0
              ELSE IF evt.type = "progress" THEN evt.loaded
              ELSE Len(ResponseTextGet(XHRStateSpoofs, xhr))]
      ELSE [readyState |-> rs]

\* the values the replay closure restores after the handler (lines 276-279)
ClearSpoofs == [readyState |-> Undefined, responseTextLength |-> Undefined]

\* ------------------------------------------------------- queue entries
NoEvt == [type |-> "-", loaded |-> 0]

NoItem == [kind |-> "-", x |-> NoX, h |-> NoX, evt |-> NoEvt, spoofs |-> ClearSpoofs,
           live |-> Undefined, isSync |-> FALSE, m |-> 0, seq |-> 0]

\* the closure wrappedHandler of wrapHandler (lines 266-283); description
\* carries isSync, live is the live stage when the signal was blocked
EvtItem(x, h, evt, spoofs, isSync, seq) ==
  [kind |-> "evt", x |-> x, h |-> h, evt |-> evt, spoofs |-> spoofs,
   live |-> readyState[x], isSync |-> isSync, m |-> 0, seq |-> seq]

\* the closure postMessage pushed by the deferred turn (lines 226-228)
PmItem(m, seq) ==
  [kind |-> "pm", x |-> NoX, h |-> NoX, evt |-> NoEvt, spoofs |-> ClearSpoofs,
   live |-> Undefined, isSync |-> FALSE, m |-> m, seq |-> seq]

DrainTask == [t |-> "drain", m |-> 0]

PmTask(m) == [t |-> "pm", m |-> m]

\* ------------------------------------------------------- the decisions
\* line 135: arguments.length > 2 && !arguments[2]
MarksSync(a) == a \in {"undefined", "false"}

\* mutant of ShouldBlock: the test of isSync is lost
BlockAtAnyDepth(isSync, depth) == depth # 0

\* line 264: !isSync && currentlyBlockingOnSyncXHRs
ShouldBlock(isSync, depth) == ~isSync /\ depth # 0

\* mutant of ShiftIndex: pop() in place of shift()
PopIndex(queue) == Len(queue)

\* line 150: currentlyBlockedEvents.shift(), the index it removes
ShiftIndex(queue) == IF queue = <<>> THEN 0 ELSE 1

\* line 144 and 146: whether unblockEventsIfNecessary enters its loop
MustDrain == mustUnblockEventsNow /\ ~unblockingEvents

\* line 189: the patched send asks for a drain when the depth is exactly 1
DrainDue(depth) == depth = 1

\* line 224: the deferred postMessage turn blocks while the depth is not 0
PmBlocked(depth) == depth # 0

\* ---------------------------------------------------------------- Init
Init ==
  /\ openSyncXHRs = {}
  /\ hostMode = [x \in XHRs |-> "none"]
  /\ readyState = [x \in XHRs |-> 0]
  /\ responseText = [x \in XHRs |-> <<>>]
  /\ responseType = [x \in XHRs |-> ""]
  /\ XHRStateSpoofs = [x \in XHRs |-> NoSpoofs]
  /\ unblockingEvents = FALSE
  /\ currentlyBlockingOnSyncXHRs = 0
  /\ mustUnblockEventsNow = FALSE
  /\ currentlyBlockedEvents = <<>>
  /\ stack = <<>>
  /\ microtasks = <<>>
  /\ exc = NoExc
  /\ nOps = 0 /\ nMsgs = 0 /\ nPushed = 0
  /\ replayed = <<>>
  /\ delivered = [m \in 1..MaxOps |-> 0]
  /\ errItems = {}
  /\ raised = FALSE
  /\ seen = <<>>
  /\ oldSendCall = [given |-> <<>>, got |-> <<>>]
  /\ openArg = [x \in XHRs |-> "none"]
  /\ currentHandler = [t \in SigTypes |-> NoHandler]
  /\ onSlot = [x \in XHRs |-> [t \in SigTypes |-> NoHandler]]
  /\ reported = {}
  /\ registeredListeners = [h \in Handlers |-> NoWrapper]
  /\ hostListeners = [x \in XHRs |-> [t \in SigTypes |-> {}]]
  /\ nWrappers = 0
  /\ oldRELCall = [given |-> "null", got |-> Raw("null")]
  /\ timesAdded = [x \in XHRs |-> [t \in SigTypes |-> [h \in Handlers |-> 0]]]

\* ------------------------------------------------------------ page code
\* the host starts a script, a timer callback or a page promise reaction
NewTask ==
  /\ exc = NoExc /\ stack = <<>>
  /\ stack' = <<Frame("task", NoX, NoX, "host", NoItem)>>
  /\ UNCHANGED <<apiVars, openSyncXHRs, hostVars, XHRStateSpoofs, coordVars, microtasks, exc, histVars>>

\* page code returns.  A replayed handler returns into the closure of lines
\* 266-281: an object handler was run by handleEvent and handler.apply then
\* raises a TypeError, a callable was run by handler.apply and the spoofs
\* are cleared.
UserReturn ==
  /\ InUserCode
  /\ stack' = Pop
  /\ IF Top.k = "handler" /\ Top.via = "replay"
     THEN IF Top.h = "obj"
          THEN exc' = "TypeError" /\ raised' = TRUE /\ UNCHANGED XHRStateSpoofs
          ELSE /\ XHRStateSpoofs' = spoofXHRState(XHRStateSpoofs, Top.x, ClearSpoofs)
               /\ UNCHANGED <<exc, raised>>
     ELSE UNCHANGED <<exc, raised, XHRStateSpoofs>>
  /\ UNCHANGED <<apiVars, openSyncXHRs, hostVars, coordVars, microtasks,
                 nOps, nMsgs, nPushed, replayed, delivered, errItems, seen>>

\* a replayed handler raises: the closure is left before line 276
HandlerThrow ==
  /\ InUserCode /\ Top.k = "handler" /\ Top.via = "replay"
  /\ stack' = Pop
  /\ exc' = "UserError"
  /\ raised' = TRUE
  /\ UNCHANGED <<apiVars, openSyncXHRs, hostVars, XHRStateSpoofs, coordVars, microtasks,
                 nOps, nMsgs, nPushed, replayed, delivered, errItems, seen>>

\* an exception leaves the frame on top of the stack
Unwind ==
  /\ exc # NoExc /\ stack # <<>>
  /\ \/ /\ Top.k = "drain"
        /\ stack' = Pop
        /\ exc' = IF Top.via = "turn" THEN NoExc ELSE exc
     \/ /\ Top.k = "send" /\ Top.via = "pre"
        /\ stack' = Pop
        /\ UNCHANGED exc
     \/ /\ Top.k \in {"task", "handler"}
        /\ \/ stack' = stack /\ exc' = NoExc
           \/ stack' = Pop /\ exc' = IF Top.via = "replay" THEN exc ELSE NoExc
  /\ UNCHANGED <<apiVars, openSyncXHRs, hostVars, XHRStateSpoofs, coordVars, microtasks, histVars>>

\* XHRProto.open (lines 134-139); the host's open resets the request
Open(x, a) ==
  /\ InUserCode
  /\ \A i \in 1..Len(stack) : ~(stack[i].k = "send" /\ stack[i].x = x)
  /\ openSyncXHRs' = IF MarksSync(a) THEN openSyncXHRs \cup {x} ELSE openSyncXHRs
  /\ hostMode' = [hostMode EXCEPT ![x] = IF a \in {"absent", "true"} THEN "async" ELSE "sync"]
  /\ readyState' = [readyState EXCEPT ![x] = 1]
  /\ responseText' = [responseText EXCEPT ![x] = <<>>]
  /\ openArg' = [openArg EXCEPT ![x] = a]
  /\ UNCHANGED <<oldSendCall, regVars, reported, responseType, XHRStateSpoofs, coordVars, stack, microtasks, exc, histVars>>

\* line 181: the argument list oldXHRSend.call(this) passes on
SyncSendArgs(args) == <<>>

\* line 207: the argument list oldXHRSend.call(this, arguments) passes on
AsyncSendArgs(args) == <<ArgumentsObject(args)>>

\* XHRProto.send of a request in openSyncXHRs, called with the argument list
\* args, up to the underlying send (lines 167-181); a forced drain runs first
\* when one is due
SendBegin(x, args) ==
  /\ InUserCode
  /\ x \in openSyncXHRs
  /\ nOps < MaxOps
  /\ \A i \in 1..Len(stack) : ~(stack[i].k = "send" /\ stack[i].x = x)
  /\ nOps' = nOps + 1
  /\ mustUnblockEventsNow' = FALSE
  /\ IF MustDrain
     THEN /\ unblockingEvents' = TRUE
          /\ stack' = stack \o <<Frame("send", x, args, "pre", NoItem),
                                 Frame("drain", NoX, NoX, "forced", NoItem)>>
          /\ UNCHANGED <<currentlyBlockingOnSyncXHRs, currentlyBlockedEvents, oldSendCall>>
     ELSE /\ currentlyBlockingOnSyncXHRs' = currentlyBlockingOnSyncXHRs + 1
          /\ currentlyBlockedEvents' = <<>>
          /\ stack' = Append(stack, Frame("send", x, args, "inflight", NoItem))
          /\ oldSendCall' = [given |-> args, got |-> SyncSendArgs(args)]
          /\ UNCHANGED unblockingEvents
  /\ UNCHANGED <<openArg, regVars, reported, openSyncXHRs, hostVars, XHRStateSpoofs, microtasks, exc,
                 nMsgs, nPushed, replayed, delivered, errItems, raised, seen>>

\* lines 177-181 after a forced drain has returned
SendEnter ==
  /\ exc = NoExc /\ stack # <<>> /\ Top.k = "send" /\ Top.via = "pre"
  /\ currentlyBlockingOnSyncXHRs' = currentlyBlockingOnSyncXHRs + 1
  /\ currentlyBlockedEvents' = <<>>
  /\ stack' = Append(Pop, Frame("send", Top.x, Top.h, "inflight", NoItem))
  /\ oldSendCall' = [given |-> Top.h, got |-> SyncSendArgs(Top.h)]
  /\ UNCHANGED <<openArg, regVars, reported, openSyncXHRs, hostVars, XHRStateSpoofs, unblockingEvents,
                 mustUnblockEventsNow, microtasks, exc, histVars>>

\* lines 186-205: the underlying send returned (e = NoExc) or raised e
SendEnd(e) ==
  /\ exc = NoExc /\ stack # <<>> /\ SendInFlight(Top)
  /\ IF DrainDue(currentlyBlockingOnSyncXHRs)
     THEN /\ mustUnblockEventsNow' = TRUE
          /\ microtasks' = Append(microtasks, DrainTask)
     ELSE UNCHANGED <<mustUnblockEventsNow, microtasks>>
  /\ exc' = e
  /\ stack' = Pop
  /\ errItems' = IF e # NoExc /\ DrainDue(currentlyBlockingOnSyncXHRs)
                 THEN errItems \cup {currentlyBlockedEvents[i].seq :
                                       i \in 1..Len(currentlyBlockedEvents)}
                 ELSE errItems
  /\ UNCHANGED <<apiVars, openSyncXHRs, hostVars, XHRStateSpoofs, unblockingEvents,
                 currentlyBlockingOnSyncXHRs, currentlyBlockedEvents,
                 nOps, nMsgs, nPushed, replayed, delivered, raised, seen>>

SendReturn == SendEnd(NoExc)

\* a synchronous send that page code starts outside every other synchronous
\* send and outside every drain
OuterSend(x, args) ==
  /\ \A i \in 1..Len(stack) : stack[i].k \notin {"send", "drain"}
  /\ SendBegin(x, args)

\* XHRProto.send of a request that is not in openSyncXHRs (line 207); the
\* underlying send of an asynchronous request returns at once
SendAsync(x, args) ==
  /\ InUserCode
  /\ x \notin openSyncXHRs
  /\ hostMode[x] = "async"
  /\ oldSendCall' = [given |-> args, got |-> AsyncSendArgs(args)]
  /\ UNCHANGED <<openArg, regVars, reported, openSyncXHRs, hostVars, XHRStateSpoofs, coordVars, stack,
                 microtasks, exc, histVars>>

SendThrow == \E e \in Errors : SendEnd(e)

\* window.postMessage (lines 219-234): only schedules the deferred turn
PostMessage ==
  /\ InUserCode
  /\ nOps < MaxOps
  /\ nOps' = nOps + 1
  /\ nMsgs' = nMsgs + 1
  /\ microtasks' = Append(microtasks, PmTask(nMsgs + 1))
  /\ UNCHANGED <<apiVars, openSyncXHRs, hostVars, XHRStateSpoofs, coordVars, stack, exc,
                 nPushed, replayed, delivered, errItems, raised, seen>>

\* where the host runs a microtask: the stack is empty, or a synchronous
\* underlying send is spinning its event loop
AtCheckpoint == exc = NoExc /\ (stack = <<>> \/ InNestedLoop)

\* the scheduled turn of unblockEventsIfNecessary (line 200)
DrainTurn ==
  /\ AtCheckpoint
  /\ microtasks # <<>> /\ Head(microtasks).t = "drain"
  /\ microtasks' = Tail(microtasks)
  /\ mustUnblockEventsNow' = FALSE
  /\ IF MustDrain
     THEN /\ unblockingEvents' = TRUE
          /\ stack' = Append(stack, Frame("drain", NoX, NoX, "turn", NoItem))
     ELSE UNCHANGED <<unblockingEvents, stack>>
  /\ UNCHANGED <<apiVars, openSyncXHRs, hostVars, XHRStateSpoofs, currentlyBlockingOnSyncXHRs,
                 currentlyBlockedEvents, exc, histVars>>

\* the deferred turn of postMessage (lines 223-233)
PmTurn ==
  /\ AtCheckpoint
  /\ microtasks # <<>> /\ Head(microtasks).t = "pm"
  /\ microtasks' = Tail(microtasks)
  /\ LET m == Head(microtasks).m
     IN  IF PmBlocked(currentlyBlockingOnSyncXHRs)
         THEN /\ currentlyBlockedEvents' = Append(currentlyBlockedEvents, PmItem(m, nPushed + 1))
              /\ nPushed' = nPushed + 1
              /\ UNCHANGED delivered
         ELSE /\ delivered' = [delivered EXCEPT ![m] = @ + 1]
              /\ UNCHANGED <<currentlyBlockedEvents, nPushed>>
  /\ UNCHANGED <<apiVars, openSyncXHRs, hostVars, XHRStateSpoofs, unblockingEvents,
                 currentlyBlockingOnSyncXHRs, mustUnblockEventsNow, stack, exc,
                 nOps, nMsgs, replayed, errItems, raised, seen>>

\* one iteration of the loop of lines 149-153; the closure of a wrapper
\* around null raises at line 272, after line 270 installed the spoofs
DrainNext ==
  /\ exc = NoExc /\ stack # <<>> /\ Top.k = "drain"
  /\ currentlyBlockedEvents # <<>>
  /\ LET i == ShiftIndex(currentlyBlockedEvents)
         evt == currentlyBlockedEvents[i]
     IN  /\ currentlyBlockedEvents' =
               SubSeq(currentlyBlockedEvents, 1, i - 1) \o
               SubSeq(currentlyBlockedEvents, i + 1, Len(currentlyBlockedEvents))
         /\ replayed' = Append(replayed, evt.seq)
         /\ IF evt.kind = "pm"
            THEN /\ delivered' = [delivered EXCEPT ![evt.m] = @ + 1]
                 /\ seen' = Append(seen, Undefined)
                 /\ UNCHANGED <<XHRStateSpoofs, stack, exc, raised>>
            ELSE /\ XHRStateSpoofs' = spoofXHRState(XHRStateSpoofs, evt.x, evt.spoofs)
                 /\ seen' = Append(seen, Len(ResponseTextGet(XHRStateSpoofs', evt.x)))
                 /\ IF evt.h = "null"
                    THEN /\ exc' = "TypeError"
                         /\ raised' = TRUE
                         /\ UNCHANGED stack
                    ELSE /\ stack' = Append(stack, Frame("handler", evt.x, evt.h, "replay", evt))
                         /\ UNCHANGED <<exc, raised>>
                 /\ UNCHANGED delivered
  /\ UNCHANGED <<apiVars, openSyncXHRs, hostVars, unblockingEvents, currentlyBlockingOnSyncXHRs,
                 mustUnblockEventsNow, microtasks,
                 nOps, nMsgs, nPushed, errItems>>

\* lines 154-156: the loop found the queue empty
DrainEnd ==
  /\ exc = NoExc /\ stack # <<>> /\ Top.k = "drain"
  /\ currentlyBlockedEvents = <<>>
  /\ unblockingEvents' = TRUE
  /\ currentlyBlockingOnSyncXHRs' = currentlyBlockingOnSyncXHRs - 1
  /\ stack' = Pop
  /\ UNCHANGED <<apiVars, openSyncXHRs, hostVars, XHRStateSpoofs, mustUnblockEventsNow,
                 currentlyBlockedEvents, microtasks, exc,
                 nOps, nMsgs, nPushed, replayed, delivered, errItems, raised, seen>>

\* the progress measurements the host can report for a request
LoadedVals(x, type) ==
  IF type = "progress"
  THEN {n \in 0..Len(responseText[x]) : n % Chunk = 0}
  ELSE {Len(responseText[x])}

\* where the host fires a signal of request x: a synchronous request fires
\* inside its own underlying send, an asynchronous one from any event loop
CanFire(x) ==
  /\ exc = NoExc
  /\ \/ hostMode[x] = "sync" /\ InNestedLoop /\ Top.x = x
     \/ hostMode[x] = "async" /\ (InNestedLoop \/ (stack = <<>> /\ microtasks = <<>>))

\* the wrapper returned by wrapHandler(handler, type), called by the host
\* with this = x and the event evt (lines 242-291); a wrapper around null
\* raises at line 286
Wrapper(x, h, evt) ==
  LET spoofs == CaptureSpoofs(x, evt)
      isSync == x \in openSyncXHRs
      block == ShouldBlock(isSync, currentlyBlockingOnSyncXHRs)
  IN  IF block
      THEN /\ currentlyBlockedEvents' =
                Append(currentlyBlockedEvents, EvtItem(x, h, evt, spoofs, isSync, nPushed + 1))
           /\ nPushed' = nPushed + 1
           /\ UNCHANGED <<stack, reported>>
      ELSE IF h = "null"
           THEN /\ reported' = reported \cup {"TypeError"}
                /\ UNCHANGED <<stack, currentlyBlockedEvents, nPushed>>
           ELSE /\ stack' = Append(stack, Frame("handler", x, h, "host", NoItem))
                /\ UNCHANGED <<currentlyBlockedEvents, nPushed, reported>>

Dispatch(x, h, type) ==
  /\ CanFire(x)
  /\ nOps < MaxOps
  /\ nOps' = nOps + 1
  /\ \E n \in LoadedVals(x, type) : Wrapper(x, h, [type |-> type, loaded |-> n])
  /\ UNCHANGED <<callVars, regVars, openSyncXHRs, hostVars, XHRStateSpoofs, unblockingEvents,
                 currentlyBlockingOnSyncXHRs, mustUnblockEventsNow, microtasks, exc,
                 nMsgs, replayed, delivered, errItems, raised, seen>>

\* page code calls x.dispatchEvent(evt) on a request the host is not yet
\* driving: the wrapper runs inside the caller
PageDispatch(x, h, type) ==
  /\ InUserCode
  /\ readyState[x] = 0
  /\ nOps < MaxOps
  /\ nOps' = nOps + 1
  /\ \E n \in LoadedVals(x, type) : Wrapper(x, h, [type |-> type, loaded |-> n])
  /\ UNCHANGED <<callVars, regVars, openSyncXHRs, hostVars, XHRStateSpoofs, unblockingEvents,
                 currentlyBlockingOnSyncXHRs, mustUnblockEventsNow, microtasks, exc,
                 nMsgs, replayed, delivered, errItems, raised, seen>>

\* the on<type> setter (lines 338-341)
OnSet(x, type, handler) ==
  /\ InUserCode
  /\ currentHandler' = [currentHandler EXCEPT ![type] = handler]
  /\ onSlot' = [onSlot EXCEPT ![x][type] = handler]
  /\ UNCHANGED <<callVars, listenerVars, reported, openSyncXHRs, hostVars, XHRStateSpoofs,
                 coordVars, stack, microtasks, exc, histVars>>

\* the on<type> getter (lines 342-344)
OnGet(x, type) == currentHandler[type]

\* the host fires a signal at the wrapper in the on<type> slot of x
FireSlot(x, type) ==
  /\ onSlot[x][type] # NoHandler
  /\ Dispatch(x, onSlot[x][type], type)

\* mutant of KnownWrapper: the lookup in registeredListeners is lost
ForgottenWrapper(handler) == NoWrapper

\* lines 308-309: the wrapper addEventListener finds for a handler
KnownWrapper(handler) == registeredListeners[handler]

\* XHRProto.addEventListener(type, handler) with a handler (lines 300-316);
\* the host keeps one registration per callback and type
AddEventListener(x, type, handler) ==
  /\ InUserCode
  /\ LET known == KnownWrapper(handler)
         fresh == known = NoWrapper
         wrappedHandler == IF fresh THEN WrapperOf(handler, nWrappers + 1) ELSE known
     IN  /\ fresh => nWrappers < MaxWrappers
         /\ nWrappers' = IF fresh THEN nWrappers + 1 ELSE nWrappers
         /\ hostListeners' = [hostListeners EXCEPT ![x][type] = @ \cup {wrappedHandler}]
         /\ registeredListeners' = [registeredListeners EXCEPT ![handler] = wrappedHandler]
  /\ timesAdded' = [timesAdded EXCEPT ![x][type][handler] = Min(@ + 1, 2)]
  /\ UNCHANGED <<callVars, slotVars, oldRELCall, reported, openSyncXHRs, hostVars,
                 XHRStateSpoofs, coordVars, stack, microtasks, exc, histVars>>

\* XHRProto.removeEventListener(type, handler) (lines 317-327)
RemoveEventListener(x, type, handler) ==
  /\ InUserCode
  /\ LET callback == IF handler # "null" /\ registeredListeners[handler] # NoWrapper
                     THEN registeredListeners[handler]
                     ELSE Raw(handler)
     IN  /\ oldRELCall' = [given |-> handler, got |-> callback]
         /\ hostListeners' = [hostListeners EXCEPT ![x][type] = @ \ {callback}]
  /\ timesAdded' = IF handler = "null" THEN timesAdded
                   ELSE [timesAdded EXCEPT ![x][type][handler] = 0]
  /\ UNCHANGED <<callVars, slotVars, registeredListeners, nWrappers, reported, openSyncXHRs,
                 hostVars, XHRStateSpoofs, coordVars, stack, microtasks, exc, histVars>>

\* how a handler frame's handler was called: by the wrapper at once (lines
\* 286-289, this being the request) or by the replay closure (lines 272-275,
\* which evt() of line 152 calls with no this, in strict mode)
CallShape(f) ==
  IF f.h = "obj"
  THEN [how |-> "handleEvent", this |-> "handler", arg |-> "arguments object"]
  ELSE [how |-> "apply", arg |-> "event",
        this |-> IF f.via = "replay" THEN "undefined" ELSE "request"]

\* the host fires a signal at a callback registered on x for type
FireListener(x, type) ==
  \E w \in hostListeners[x][type] : Dispatch(x, w.wraps, type)

\* page code sets x.responseType on a request it has not opened yet
SetResponseType(x, rt) ==
  /\ InUserCode
  /\ readyState[x] = 0
  /\ responseType[x] # rt
  /\ responseType' = [responseType EXCEPT ![x] = rt]
  /\ UNCHANGED <<apiVars, openSyncXHRs, hostMode, readyState, responseText, XHRStateSpoofs,
                 coordVars, stack, microtasks, exc, histVars>>

\* the host advances an asynchronous request: headers, then body data a
\* chunk at a time, then done
HostProgress(x) ==
  /\ exc = NoExc /\ (stack = <<>> \/ InNestedLoop)
  /\ hostMode[x] = "async"
  /\ \/ /\ readyState[x] \in {1, 2}
        /\ readyState' = [readyState EXCEPT ![x] = @ + 1]
        /\ UNCHANGED responseText
     \/ /\ readyState[x] = LOADING
        /\ Len(responseText[x]) < Len(Body)
        /\ responseText' = [responseText EXCEPT ![x] = SubSeq(Body, 1, Len(@) + Chunk)]
        /\ UNCHANGED readyState
     \/ /\ readyState[x] = LOADING
        /\ readyState' = [readyState EXCEPT ![x] = LOADING + 1]
        /\ UNCHANGED responseText
  /\ UNCHANGED <<apiVars, openSyncXHRs, hostMode, responseType, XHRStateSpoofs,
                 coordVars, stack, microtasks, exc, histVars>>

\* ---------------------------------------------------------------- Spec
Next ==
  \/ NewTask
  \/ UserReturn
  \/ HandlerThrow
  \/ Unwind
  \/ \E x \in XHRs, a \in {"absent", "false"} : Open(x, a)
  \/ \E x \in XHRs : SendBegin(x, <<>>)
  \/ SendEnter
  \/ SendReturn
  \/ SendThrow
  \/ PostMessage
  \/ DrainTurn
  \/ PmTurn
  \/ DrainNext
  \/ DrainEnd
  \/ \E x \in XHRs : Dispatch(x, "fn", "load")

Spec == Init /\ [][Next]_vars

\* the captured state and the state accessors: one asynchronous request
\* whose live state moves on between the blocking of a signal and its replay
NextSnap ==
  \/ NewTask
  \/ UserReturn
  \/ Open("A", "false")
  \/ Open("B", "true")
  \/ \E rt \in ResponseTypes : SetResponseType("B", rt)
  \/ SendBegin("A", <<>>)
  \/ SendEnter
  \/ SendReturn
  \/ DrainTurn
  \/ DrainNext
  \/ DrainEnd
  \/ HostProgress("B")
  \/ \E type \in SigTypes : Dispatch("B", "fn", type)
  \/ \E type \in SigTypes : PageDispatch("B", "fn", type)

SpecSnap == Init /\ [][NextSnap]_vars

\* open and send on their own: every third argument of open, every body of
\* send, synchronous and asynchronous
NextSend ==
  \/ NewTask
  \/ UserReturn
  \/ \E x \in XHRs, a \in OpenArgs : Open(x, a)
  \/ \E x \in XHRs, args \in SendArgs : SendBegin(x, args)
  \/ SendEnter
  \/ SendReturn
  \/ \E x \in XHRs, args \in SendArgs : SendAsync(x, args)
  \/ DrainTurn
  \/ DrainEnd

SpecSend == Init /\ [][NextSend]_vars

\* the on* properties: assignments to the slots of two requests, and the
\* signals the host fires at them during and between synchronous sends
NextSlots ==
  \/ NewTask
  \/ UserReturn
  \/ Unwind
  \/ Open("A", "false")
  \/ Open("B", "true")
  \/ SendBegin("A", <<>>)
  \/ SendEnter
  \/ SendReturn
  \/ DrainTurn
  \/ DrainNext
  \/ DrainEnd
  \/ \E x \in XHRs, v \in SlotValues : OnSet(x, "load", v)
  \/ FireSlot("B", "load")

SpecSlots == Init /\ [][NextSlots]_vars

\* the listener API: registrations and removals on two requests, and the
\* signals the host fires at what is registered
NextListeners ==
  \/ NewTask
  \/ UserReturn
  \/ \E x \in XHRs : Open(x, "true")
  \/ \E x \in XHRs, h \in Handlers : AddEventListener(x, "load", h)
  \/ \E x \in XHRs, h \in ListenerArgs : RemoveEventListener(x, "load", h)
  \/ \E x \in XHRs : FireListener(x, "load")

SpecListeners == Init /\ [][NextListeners]_vars

\* rounds: outer synchronous sends of one request, one after the other,
\* and the signals of an asynchronous request around them
NextRounds ==
  \/ NewTask
  \/ UserReturn
  \/ Open("A", "false")
  \/ Open("B", "true")
  \/ OuterSend("A", <<>>)
  \/ SendEnter
  \/ SendReturn
  \/ DrainTurn
  \/ DrainNext
  \/ DrainEnd
  \/ Dispatch("B", "fn", "load")

SpecRounds == Init /\ [][NextRounds]_vars

\* handler shapes: signals of an asynchronous request reach wrappers around
\* a callable and around an object with handleEvent, at once and on replay
NextShapes ==
  \/ NewTask
  \/ UserReturn
  \/ HandlerThrow
  \/ Unwind
  \/ Open("A", "false")
  \/ Open("B", "true")
  \/ SendBegin("A", <<>>)
  \/ SendEnter
  \/ SendReturn
  \/ DrainTurn
  \/ DrainNext
  \/ DrainEnd
  \/ \E h \in Handlers : Dispatch("B", h, "load")

SpecShapes == Init /\ [][NextShapes]_vars

\* ------------------------------------------------------------ properties
ReplayFrame(f) == f.k = "handler" /\ f.via = "replay"

Replaying == \E i \in 1..Len(stack) : ReplayFrame(stack[i])

TimesReplayed(q) == Cardinality({i \in 1..Len(replayed) : replayed[i] = q})

\* C1: while the underlying send of a synchronous request is in flight, no
\* handler of an asynchronous request is invoked (no handler frame of a
\* request last opened asynchronous lies above the send's frame) and no
\* message is delivered (no step made during it calls the original
\* postMessage).
C1_NothingRunsDuringSyncSend ==
  /\ [](\A i \in 1..Len(stack) : \A j \in 1..Len(stack) :
          (i < j /\ SendInFlight(stack[i]) /\ hostMode[stack[i].x] = "sync"
                 /\ stack[j].k = "handler")
          => hostMode[stack[j].x] # "async")
  /\ [][delivered' # delivered => ~InFlight]_vars

\* C2: queue entries are replayed in the order they were pushed, one at a
\* time: the entries replayed so far are in increasing push order, and a
\* replay still on the stack is the latest one begun, so every earlier
\* replay had completed before it began.
C2_ReplayInPushOrder ==
  /\ \A i \in 1..Len(replayed) : \A j \in 1..Len(replayed) :
       i < j => replayed[i] < replayed[j]
  /\ \A i \in 1..Len(stack) :
       ReplayFrame(stack[i]) => stack[i].item.seq = Last(replayed)

C2_Witness ==
  /\ Len(replayed) >= 2
  /\ Replaying
  /\ currentlyBlockedEvents # <<>>

\* C3: once every synchronous call has returned and every scheduled turn
\* has run, every entry that was pushed onto the queue has been replayed
\* exactly once (no replayed handler having raised).
C3_EveryPushedEntryReplayedOnce ==
  (Quiescent /\ ~raised) => \A q \in 1..nPushed : TimesReplayed(q) = 1

\* C4: after an outer synchronous call has returned and the scheduled turns
\* have run, its queue has been drained, once: nothing is left in the queue,
\* no drain is still requested, and no entry was replayed twice.
C4_EveryRoundDrainedOnce ==
  (Quiescent /\ ~raised) =>
     /\ currentlyBlockedEvents = <<>>
     /\ ~mustUnblockEventsNow
     /\ \A q \in 1..nPushed : TimesReplayed(q) <= 1

\* the step is a signal reaching a wrapper that queues it
SignalQueued == nOps' = nOps + 1 /\ nPushed' = nPushed + 1

\* C5: a signal of a request classified synchronous is never queued, at
\* any depth: a wrapper only ever queues a signal of a request that is not
\* in openSyncXHRs nor was last opened synchronous, and the closure it
\* pushes records isSync = false.
C5_SyncSignalNeverQueued ==
  [][SignalQueued =>
       /\ Last(currentlyBlockedEvents').x \notin openSyncXHRs
       /\ hostMode[Last(currentlyBlockedEvents').x] # "sync"
       /\ ~Last(currentlyBlockedEvents').isSync]_vars

C5_Witness ==
  /\ stack # <<>>
  /\ Top.k = "handler" /\ Top.via = "host"
  /\ Top.x \in openSyncXHRs
  /\ currentlyBlockingOnSyncXHRs >= 2
  /\ \E i \in 1..Len(stack) : SendInFlight(stack[i]) /\ stack[i].x = Top.x

\* C6: once every synchronous call has returned and every scheduled turn
\* has run, each message sent has been delivered exactly once.
C6_EveryMessageDeliveredOnce ==
  (Quiescent /\ ~raised) => \A m \in 1..nMsgs : delivered[m] = 1

\* the step is a replayed handler starting a synchronous send
ReplayStartsSend ==
  /\ stack # <<>> /\ ReplayFrame(Top)
  /\ Len(stack') = Len(stack) + 1
  /\ SendInFlight(Last(stack'))

\* C7: when a handler replayed by a drain starts a synchronous request, the
\* depth becomes 2 and the entries still waiting in the queue are kept.
C7_NestedSendKeepsQueue ==
  [][ReplayStartsSend =>
       /\ currentlyBlockingOnSyncXHRs' = 2
       /\ currentlyBlockedEvents' = currentlyBlockedEvents]_vars

\* the step is an underlying send raising
SendRaises ==
  /\ stack # <<>> /\ SendInFlight(Top) /\ exc = NoExc
  /\ stack' = Pop /\ exc' # NoExc

\* C8: when the underlying send raises at depth 1 the drain is requested and
\* scheduled and the error reaches the caller, and the entries queued in that
\* window are replayed by the time the scheduled turns have run.
C8_ErrorPathStillDrains ==
  /\ [][SendRaises =>
          /\ exc' \in Errors
          /\ currentlyBlockingOnSyncXHRs = 1 =>
               (mustUnblockEventsNow' /\ microtasks' = Append(microtasks, DrainTask))]_vars
  /\ []((Quiescent /\ ~raised) => \A q \in errItems : TimesReplayed(q) = 1)

Prefix(text, n) == SubSeq(text, 1, Min(n, Len(text)))

\* C9: while a deferred signal of a request is being replayed, a read of
\* the request's readyState returns the stage the request had when the
\* signal was blocked, whatever that stage was (0 through 4).
C9_ReplayReadsBlockedStage ==
  \A i \in 1..Len(stack) :
    ReplayFrame(stack[i]) =>
      ReadyStateGet(XHRStateSpoofs, stack[i].x) = stack[i].item.live

\* the replay on the stack, if it is one of a progress signal that was
\* blocked while the request was text-shaped
ProgressReplay(f) ==
  /\ ReplayFrame(f)
  /\ f.item.evt.type = "progress"
  /\ "responseTextLength" \in DOMAIN f.item.spoofs

\* the length captured for a progress signal: its progress measurement, or
\* 0 when the stage captured with it is before body data
CapturedLength(item) ==
  IF item.spoofs.readyState < LOADING THEN 0 ELSE item.evt.loaded

C11_BodyPassedUnchanged ==
  BodyOf(oldSendCall.got) = BodyOf(oldSendCall.given)

\* C20: the most recent open of a request decides its classification: an
\* explicit false classifies it synchronous, and an absent third argument or
\* true classifies it asynchronous, also when an earlier open was synchronous.
\* (The claim says the same of an explicit undefined, which line 135 and the
\* host's own conversion of the argument both take for false.)
C20_LastOpenDecides ==
  \A x \in XHRs :
    /\ openArg[x] = "false" => x \in openSyncXHRs
    /\ openArg[x] \in {"absent", "true"} => x \notin openSyncXHRs

\* C12: reading on<type> of a request returns the handler last assigned to
\* that property of that request, and nothing when none was assigned.
C12_GetterReturnsOwnHandler ==
  \A x \in XHRs : \A t \in SigTypes : OnGet(x, t) = onSlot[x][t]

\* C13: after null was assigned to on<type>, a signal of that type on that
\* request invokes nothing and raises no error: no wrapper the host calls
\* raises a TypeError to it, and no replay closure raises one in a drain.
C13_NullSlotRaisesNothing ==
  /\ "TypeError" \notin reported
  /\ exc # "TypeError"

\* the host registrations on x for type whose callback wraps handler
Registrations(x, type, handler) ==
  {w \in hostListeners[x][type] : w.wraps = handler}

\* C14: however often a handler was registered on a request for a type
\* since its last removal, the host holds exactly one registration for it,
\* that of the one wrapper registeredListeners keeps for the handler; after
\* a removal it holds none; and the removal of a handler that has no wrapper,
\* or of no handler, reaches the host removal with that very argument.
C14_OneWrapperPerHandler ==
  /\ [](\A x \in XHRs : \A t \in SigTypes : \A h \in Handlers :
          Registrations(x, t, h) =
            IF timesAdded[x][t][h] = 0 THEN {} ELSE {registeredListeners[h]})
  /\ [][oldRELCall' # oldRELCall =>
          oldRELCall'.got =
            IF oldRELCall'.given = "null"
               \/ registeredListeners[oldRELCall'.given] = NoWrapper
            THEN Raw(oldRELCall'.given)
            ELSE registeredListeners[oldRELCall'.given]]_vars

\* a handler registered twice on a request runs, from the one registration
\* the host holds for it
C14_Witness ==
  /\ stack # <<>> /\ Top.k = "handler" /\ Top.via = "host"
  /\ timesAdded[Top.x]["load"][Top.h] = 2
  /\ Cardinality(hostListeners[Top.x]["load"]) = 1

\* C15: over non-nested outer synchronous calls the depth is 0 again once a
\* round's drain turn has run, so a signal of an asynchronous request is
\* queued only while a synchronous call is on the stack or a drain is pending.
C15_DepthBackToZero ==
  /\ [](Quiescent => currentlyBlockingOnSyncXHRs = 0)
  /\ [][SignalQueued =>
          \/ \E i \in 1..Len(stack) : stack[i].k = "send"
          \/ mustUnblockEventsNow]_vars

\* the step is the return of a send started while another underlying send
\* was in flight
NestedSendReturns ==
  /\ stack # <<>> /\ SendInFlight(Top) /\ stack' = Pop
  /\ \E i \in 1..(Len(stack) - 1) : SendInFlight(stack[i])

\* the step is the return of a send with no other send on the stack
OuterSendReturns ==
  /\ stack # <<>> /\ SendInFlight(Top) /\ stack' = Pop
  /\ \A i \in 1..(Len(stack) - 1) : stack[i].k # "send"

\* C16: a synchronous call started by a handler while an outer call is in
\* flight leaves the depth, on return, as it found it and schedules no drain;
\* the outer call's return then finds the depth at 1, sets the drain request
\* and schedules the drain.
C16_NestedCallRestoresDepth ==
  /\ [][NestedSendReturns =>
          /\ currentlyBlockingOnSyncXHRs' = currentlyBlockingOnSyncXHRs - 1
          /\ microtasks' = microtasks]_vars
  /\ [][OuterSendReturns =>
          /\ currentlyBlockingOnSyncXHRs = 1
          /\ mustUnblockEventsNow'
          /\ microtasks' = Append(microtasks, DrainTask)]_vars

\* the step starts the underlying send of a synchronous request
UnderlyingSendStarts ==
  /\ Len(stack') > 0 /\ SendInFlight(Last(stack'))
  /\ currentlyBlockingOnSyncXHRs' = currentlyBlockingOnSyncXHRs + 1

\* C17: when a new outer synchronous send begins, whatever the previous
\* round left in the queue has been replayed before the underlying send
\* starts and the queue is replaced; the previous round's turn replays
\* nothing twice, and the new round's own queue is drained as well, so every
\* entry has been replayed exactly once when all turns have run.
C17_ForcedDrainBeforeNextSend ==
  /\ [][UnderlyingSendStarts => currentlyBlockedEvents = <<>>]_vars
  /\ [](Quiescent => \A q \in 1..nPushed : TimesReplayed(q) = 1)

\* C18: whenever no deferred handler is being replayed, no request has a
\* captured stage or a captured length installed, whatever the shape of the
\* handlers replayed before and whether they returned or raised.
C18_NoSpoofsOutsideReplay ==
  (~Replaying /\ exc = NoExc) =>
     \A x \in XHRs : /\ XHRStateSpoofs[x].readyState = Undefined
                     /\ XHRStateSpoofs[x].responseTextLength = Undefined

\* how the host itself would call a handler of that shape
HostCallShape(h) ==
  IF h = "obj"
  THEN [how |-> "handleEvent", this |-> "handler", arg |-> "event"]
  ELSE [how |-> "apply", this |-> "request", arg |-> "event"]

\* C19: the handler is called as the host would have called it, a callable
\* by a call and an object by its handleEvent method, with the original
\* arguments, the same way at once and on replay; and when a replayed handler
\* has returned, the replay closure completes without raising.
C19_HandlerCalledOnceSameWay ==
  /\ [](\A i \in 1..Len(stack) :
          stack[i].k = "handler" => CallShape(stack[i]) = HostCallShape(stack[i].h))
  /\ [][(stack # <<>> /\ ReplayFrame(Top) /\ exc = NoExc /\ stack' = Pop
           /\ exc' # "UserError") => exc' = NoExc]_vars
====
